---- MODULE Spec2Model ----
(***************************************************************************)
(* RADIX-50 codec (src/lib/radix50.rs): the PDP-10 and PDP-11 dialects of  *)
(* GenericCodec.                                                           *)
(*                                                                         *)
(* A Rust `char` is modelled by its code point and a `&str`/`String` by    *)
(* the sequence of its chars.  A u16 is a natural below 2^16.  A u32 is    *)
(* the record [hi, lo] of its two 16-bit halves (value = hi * 2^16 + lo),  *)
(* because the model checker's integers are narrower than a u32.           *)
(***************************************************************************)
EXTENDS Naturals, Integers, Sequences, FiniteSets, TLC

VARIABLES dialect, text, ws, ops, ret, dec, overflow, raw, printed

vars == <<dialect, text, ws, ops, ret, dec, overflow, raw, printed>>

(***************************************************************************)
(* Bounds of the model.                                                    *)
(***************************************************************************)
\* caller strings hold at most CHARS + MaxExtra chars
MaxExtra == 1
\* caller word sequences hold at most MaxWords words
MaxWords == 2

Dialects == {"pdp10", "pdp11"}

(***************************************************************************)
(* Result and Option values.                                               *)
(***************************************************************************)
None == [tag |-> "None"]
Some(v) == [tag |-> "Some", val |-> v]
Ok(v) == [tag |-> "Ok", val |-> v]
IllegalChar(c, p) == [tag |-> "Err", char |-> c, pos |-> p]
Panic == [tag |-> "Panic"]

(***************************************************************************)
(* The two alphabets, as code points.                                      *)
(***************************************************************************)
\* the PDP-10 table with '#' typed for '$'
pdp10_RADIX50_DECODE_typo ==
    <<32, 48, 49, 50, 51, 52, 53, 54,
      55, 56, 57, 65, 66, 67, 68, 69,
      70, 71, 72, 73, 74, 75, 76, 77,
      78, 79, 80, 81, 82, 83, 84, 85,
      86, 87, 88, 89, 90, 46, 35, 37>>

\* ' ', '0'..'9', 'A'..'Z', '.', '$', '%'
pdp10_RADIX50_DECODE ==
    <<32, 48, 49, 50, 51, 52, 53, 54,
      55, 56, 57, 65, 66, 67, 68, 69,
      70, 71, 72, 73, 74, 75, 76, 77,
      78, 79, 80, 81, 82, 83, 84, 85,
      86, 87, 88, 89, 90, 46, 36, 37>>

\* ' ', 'A'..'Z', '$', '.', '%', '0'..'9'
pdp11_RADIX50_DECODE ==
    <<32, 65, 66, 67, 68, 69, 70, 71,
      72, 73, 74, 75, 76, 77, 78, 79,
      80, 81, 82, 83, 84, 85, 86, 87,
      88, 89, 90, 36, 46, 37, 48, 49,
      50, 51, 52, 53, 54, 55, 56, 57>>

\* out[radix50_table[i] as usize] = Some(i as u8), for i = from .. 39, in order;
\* an index outside the 128 slots is a (compile-time) panic
RECURSIVE invert_loop(_, _, _)
invert_loop(radix50_table, out, i) ==
    IF i >= 40 THEN out
    ELSE IF radix50_table[i + 1] \notin DOMAIN out THEN Panic
    ELSE invert_loop(radix50_table,
                     [out EXCEPT ![radix50_table[i + 1]] = Some(i)], i + 1)

\* a loop that starts at 1: the first entry of the table is never entered
invert_from_one(radix50_table) ==
    invert_loop(radix50_table, [c \in 0..127 |-> None], 1)

invert(radix50_table) ==
    invert_loop(radix50_table, [c \in 0..127 |-> None], 0)

pdp10_RADIX50_ENCODE == invert(pdp10_RADIX50_DECODE)
pdp11_RADIX50_ENCODE == invert(pdp11_RADIX50_DECODE)

\* The associated items of the two impls of GenericCodec.
CHARS(d) == IF d = "pdp10" THEN 6 ELSE 3
ENCODE(d) == IF d = "pdp10" THEN pdp10_RADIX50_ENCODE ELSE pdp11_RADIX50_ENCODE
DECODE(d) == IF d = "pdp10" THEN pdp10_RADIX50_DECODE ELSE pdp11_RADIX50_DECODE

(***************************************************************************)
(* Machine arithmetic.                                                     *)
(***************************************************************************)
U16(x) == x % 65536

\* whether the exact result x of a u16 operation does not fit in 16 bits
U16Overflows(x) == x > 65535

U32FromU16(x) == [hi |-> 0, lo |-> x]

\* w * k in u32, for a factor k below 2^15
U32MulSmall(w, k) ==
    LET l == w.lo * k
    IN  [hi |-> U16(w.hi * k + (l \div 65536)), lo |-> U16(l)]

U32Add(a, b) ==
    LET l == a.lo + b.lo
    IN  [hi |-> U16(a.hi + b.hi + (l \div 65536)), lo |-> U16(l)]

\* whether w * k and a + b go past 32 bits
U32MulSmallOverflows(w, k) == w.hi * k + ((w.lo * k) \div 65536) > 65535

U32AddOverflows(a, b) == a.hi + b.hi + ((a.lo + b.lo) \div 65536) > 65535

\* a - b in u32
U32Sub(a, b) ==
    LET borrow == IF a.lo < b.lo THEN 1 ELSE 0
    IN  [hi |-> U16(65536 + a.hi - b.hi - borrow),
         lo |-> U16(65536 + a.lo - b.lo)]

\* w / k in u32, for a divisor k below 2^15
U32DivSmall(w, k) ==
    LET t == (w.hi % k) * 65536 + w.lo
    IN  [hi |-> w.hi \div k, lo |-> t \div k]

\* w % k, for a divisor k below 2^15
U32ModSmall(w, k) == ((w.hi % k) * 65536 + w.lo) % k

\* w * (40*40*40) and w / (40*40*40), w % (40*40*40) in u32
U32Mul64000(w) == U32MulSmall(U32MulSmall(U32MulSmall(w, 40), 40), 40)
U32Div64000(w) == U32DivSmall(U32DivSmall(U32DivSmall(w, 40), 40), 40)
U32Mod64000(w) == U32Sub(w, U32Mul64000(U32Div64000(w)))

\* whether one of the three multiplications of w * 40*40*40 goes past 32 bits
U32Mul64000Overflows(w) ==
    \/ U32MulSmallOverflows(w, 40)
    \/ U32MulSmallOverflows(U32MulSmall(w, 40), 40)
    \/ U32MulSmallOverflows(U32MulSmall(U32MulSmall(w, 40), 40), 40)

\* `as u16` of a u32 keeps the low 16 bits
U32AsU16(w) == w.lo

(***************************************************************************)
(* GenericCodec: encoding.                                                 *)
(***************************************************************************)
radix50_from_char(d, c, pos) ==
    IF c > 127 THEN IllegalChar(c, pos)
    ELSE IF ENCODE(d)[c].tag = "Some" THEN Ok(ENCODE(d)[c].val)
    ELSE IllegalChar(c, pos)

\* unwrap_or('0'): padding with the character 0 instead of the space
NextOrZero(it, k) == IF k <= Len(it) THEN it[k] ELSE 48

\* it.next().unwrap_or(' ') for the k-th call on the iterator `it`
NextOrSpace(it, k) == IF k <= Len(it) THEN it[k] ELSE 32

\* an iterator taken by value: the caller's iterator does not advance
Advance3_by_value(it) == it

\* the iterator after three calls of next()
Advance3(it) == IF Len(it) <= 3 THEN <<>> ELSE SubSeq(it, 4, Len(it))

\* 40 * 2 for 40.pow(2)
encode16_times2(d, it, pos) ==
    LET c0 == radix50_from_char(d, NextOrSpace(it, 1), pos + 1)
        c1 == radix50_from_char(d, NextOrSpace(it, 2), pos + 2)
        c2 == radix50_from_char(d, NextOrSpace(it, 3), pos + 3)
    IN  IF c0.tag = "Err" THEN c0
        ELSE IF c1.tag = "Err" THEN c1
        ELSE IF c2.tag = "Err" THEN c2
        ELSE [tag |-> "Ok",
              val |-> U16(U16(U16(c0.val * 80) + U16(c1.val * 40)) + c2.val),
              of  |-> \/ U16Overflows(c0.val * 80)
                      \/ U16Overflows(c1.val * 40)
                      \/ U16Overflows(U16(c0.val * 80) + U16(c1.val * 40))
                      \/ U16Overflows(U16(U16(c0.val * 80) + U16(c1.val * 40)) + c2.val),
              it  |-> Advance3(it)]

\* pow(3), pow(2), pow(1) for pow(2), pow(1), pow(0)
encode16_pow_off_by_one(d, it, pos) ==
    LET c0 == radix50_from_char(d, NextOrSpace(it, 1), pos + 1)
        c1 == radix50_from_char(d, NextOrSpace(it, 2), pos + 2)
        c2 == radix50_from_char(d, NextOrSpace(it, 3), pos + 3)
    IN  IF c0.tag = "Err" THEN c0
        ELSE IF c1.tag = "Err" THEN c1
        ELSE IF c2.tag = "Err" THEN c2
        ELSE [tag |-> "Ok",
              val |-> U16(U16(U16(c0.val * 64000) + U16(c1.val * 1600))
                          + U16(c2.val * 40)),
              of  |-> \/ U16Overflows(c0.val * 64000)
                      \/ U16Overflows(c1.val * 1600)
                      \/ U16Overflows(c2.val * 40)
                      \/ U16Overflows(U16(c0.val * 64000) + U16(c1.val * 1600))
                      \/ U16Overflows(U16(U16(c0.val * 64000) + U16(c1.val * 1600))
                                      + U16(c2.val * 40)),
              it  |-> Advance3(it)]

\* Ok(word) carries the advanced iterator along, as the &mut Chars does, and
\* `of`: whether one of the u16 operations went past 16 bits (a panic in a
\* build with overflow checks, a wrapped value in one without)
encode16(d, it, pos) ==
    LET c0 == radix50_from_char(d, NextOrSpace(it, 1), pos + 1)
        c1 == radix50_from_char(d, NextOrSpace(it, 2), pos + 2)
        c2 == radix50_from_char(d, NextOrSpace(it, 3), pos + 3)
    IN  IF c0.tag = "Err" THEN c0
        ELSE IF c1.tag = "Err" THEN c1
        ELSE IF c2.tag = "Err" THEN c2
        ELSE [tag |-> "Ok",
              val |-> U16(U16(U16(c0.val * 1600) + U16(c1.val * 40)) + c2.val),
              of  |-> \/ U16Overflows(c0.val * 1600)
                      \/ U16Overflows(c1.val * 40)
                      \/ U16Overflows(U16(c0.val * 1600) + U16(c1.val * 40))
                      \/ U16Overflows(U16(U16(c0.val * 1600) + U16(c1.val * 40)) + c2.val),
              it  |-> Advance3(it)]

\* the whole string checked before the first three chars are encoded
pdp11_encode_word_validating(s) ==
    LET bad == {k \in 1..Len(s) : radix50_from_char("pdp11", s[k], k).tag = "Err"}
        w == encode16("pdp11", s, 0)
    IN  IF bad # {}
        THEN radix50_from_char("pdp11", s[CHOOSE k \in bad : \A j \in bad : k <= j],
                               CHOOSE k \in bad : \A j \in bad : k <= j)
        ELSE Ok(w.val)

pdp11_encode_word(s) ==
    LET w == encode16("pdp11", s, 0)
    IN  IF w.tag = "Err" THEN w ELSE Ok(w.val)

\* the second half numbered from 0 like the first
pdp10_encode_word_pos0(s) ==
    LET high == encode16("pdp10", s, 0)
        low  == encode16("pdp10", high.it, 0)
    IN  IF high.tag = "Err" THEN high
        ELSE IF low.tag = "Err" THEN low
        ELSE Ok(U32Add(U32Mul64000(U32FromU16(high.val)), U32FromU16(low.val)))

pdp10_encode_word(s) ==
    LET high == encode16("pdp10", s, 0)
        low  == encode16("pdp10", high.it, 3)
    IN  IF high.tag = "Err" THEN high
        ELSE IF low.tag = "Err" THEN low
        ELSE Ok(U32Add(U32Mul64000(U32FromU16(high.val)), U32FromU16(low.val)))

\* whether an operation of encode_word(s) went past its machine width
pdp11_encode_word_overflows(s) ==
    LET w == encode16("pdp11", s, 0)
    IN  w.tag = "Ok" /\ w.of

pdp10_encode_word_overflows(s) ==
    LET high == encode16("pdp10", s, 0)
        low  == encode16("pdp10", high.it, 3)
    IN  /\ high.tag = "Ok"
        /\ \/ high.of
           \/ /\ low.tag = "Ok"
              /\ \/ low.of
                 \/ U32Mul64000Overflows(U32FromU16(high.val))
                 \/ U32AddOverflows(U32Mul64000(U32FromU16(high.val)),
                                    U32FromU16(low.val))

encode_word_overflows(d, s) ==
    IF d = "pdp10" THEN pdp10_encode_word_overflows(s)
    ELSE pdp11_encode_word_overflows(s)

encode_word(d, s) ==
    IF d = "pdp10" THEN pdp10_encode_word(s) ELSE pdp11_encode_word(s)

\* split for split_inclusive: what is left after the last match is a chunk
\* even when it is empty
RECURSIVE split_trailing_empty(_, _, _, _, _)
split_trailing_empty(d, s, k, i, chunk) ==
    IF k > Len(s) THEN <<chunk>>
    ELSE IF (i + 1) % CHARS(d) = 0
         THEN <<Append(chunk, s[k])>> \o split_trailing_empty(d, s, k + 1, i + 1, <<>>)
         ELSE split_trailing_empty(d, s, k + 1, i + 1, Append(chunk, s[k]))

\* i % CHARS == 0 tested before i += 1: the first chunk ends after one char
RECURSIVE split_post_increment(_, _, _, _, _)
split_post_increment(d, s, k, i, chunk) ==
    IF k > Len(s) THEN (IF chunk = <<>> THEN <<>> ELSE <<chunk>>)
    ELSE IF i % CHARS(d) = 0
         THEN <<Append(chunk, s[k])>> \o split_post_increment(d, s, k + 1, i + 1, <<>>)
         ELSE split_post_increment(d, s, k + 1, i + 1, Append(chunk, s[k]))

\* s.split_inclusive(|_| { i+=1; i % CHARS == 0 }): the closure runs once per
\* char, in order; a chunk ends after each char it matches; what is left after
\* the last match is a final chunk unless it is empty
RECURSIVE split_inclusive(_, _, _, _, _)
split_inclusive(d, s, k, i, chunk) ==
    IF k > Len(s) THEN (IF chunk = <<>> THEN <<>> ELSE <<chunk>>)
    ELSE IF (i + 1) % CHARS(d) = 0
         THEN <<Append(chunk, s[k])>> \o split_inclusive(d, s, k + 1, i + 1, <<>>)
         ELSE split_inclusive(d, s, k + 1, i + 1, Append(chunk, s[k]))

\* the error of a chunk passed on as it is, its position not offset
RECURSIVE encode_loop_no_offset(_, _, _, _)
encode_loop_no_offset(d, chunks, i, out) ==
    IF i >= Len(chunks) THEN Ok(out)
    ELSE LET w == encode_word(d, chunks[i + 1])
         IN  IF w.tag = "Err"
             THEN IllegalChar(w.char, w.pos)
             ELSE encode_loop_no_offset(d, chunks, i + 1, Append(out, w.val))

\* the for loop over the enumerated chunks, from chunk number i on
RECURSIVE encode_loop(_, _, _, _)
encode_loop(d, chunks, i, out) ==
    IF i >= Len(chunks) THEN Ok(out)
    ELSE LET w == encode_word(d, chunks[i + 1])
         IN  IF w.tag = "Err"
             THEN IllegalChar(w.char, i * CHARS(d) + w.pos)
             ELSE encode_loop(d, chunks, i + 1, Append(out, w.val))

encode(d, s) == encode_loop(d, split_inclusive(d, s, 1, 0, <<>>), 0, <<>>)

\* whether an operation of encode(s) went past its machine width: one of the
\* chunks encoded, up to the first that fails
encode_overflows(d, s) ==
    LET chunks == split_inclusive(d, s, 1, 0, <<>>)
        failed == {i \in 1..Len(chunks) : encode_word(d, chunks[i]).tag = "Err"}
    IN  \E i \in 1..Len(chunks) :
            /\ \A j \in failed : i <= j
            /\ encode_word_overflows(d, chunks[i])

(***************************************************************************)
(* GenericCodec: decoding.                                                 *)
(***************************************************************************)
\* Self::DECODE[idx]: an index outside the table panics
DecodeAt(d, idx) == IF idx \in 0..39 THEN Ok(DECODE(d)[idx + 1]) ELSE Panic

\* the three characters pushed least significant digit first
decode16_reversed(d, w) ==
    LET b0 == DecodeAt(d, (w \div 1600) % 40)
        b1 == DecodeAt(d, (w \div 40) % 40)
        b2 == DecodeAt(d, w % 40)
    IN  IF b0.tag = "Panic" \/ b1.tag = "Panic" \/ b2.tag = "Panic" THEN Panic
        ELSE Ok(<<b2.val, b1.val, b0.val>>)

\* the most significant digit taken without % 40
decode16_no_mod(d, w) ==
    LET b0 == DecodeAt(d, w \div 1600)
        b1 == DecodeAt(d, (w \div 40) % 40)
        b2 == DecodeAt(d, w % 40)
    IN  IF b0.tag = "Panic" \/ b1.tag = "Panic" \/ b2.tag = "Panic" THEN Panic
        ELSE Ok(<<b0.val, b1.val, b2.val>>)

decode16(d, w) ==
    LET b0 == DecodeAt(d, (w \div 1600) % 40)
        b1 == DecodeAt(d, (w \div 40) % 40)
        b2 == DecodeAt(d, w % 40)
    IN  IF b0.tag = "Panic" \/ b1.tag = "Panic" \/ b2.tag = "Panic" THEN Panic
        ELSE Ok(<<b0.val, b1.val, b2.val>>)

pdp11_decode_word(w) == decode16("pdp11", w)

\* the two halves pushed in the wrong order
pdp10_decode_word_swapped(w) ==
    LET high == decode16("pdp10", U32AsU16(U32Div64000(w)))
        low  == decode16("pdp10", U32AsU16(U32Mod64000(w)))
    IN  IF high.tag = "Panic" \/ low.tag = "Panic" THEN Panic
        ELSE Ok(low.val \o high.val)

pdp10_decode_word(w) ==
    LET high == decode16("pdp10", U32AsU16(U32Div64000(w)))
        low  == decode16("pdp10", U32AsU16(U32Mod64000(w)))
    IN  IF high.tag = "Panic" \/ low.tag = "Panic" THEN Panic
        ELSE Ok(high.val \o low.val)

decode_word(d, w) ==
    IF d = "pdp10" THEN pdp10_decode_word(w) ELSE pdp11_decode_word(w)

\* every word's string put in front of the ones before it
RECURSIVE decode_fold_prepend(_, _, _, _)
decode_fold_prepend(d, words, k, s) ==
    IF k > Len(words) THEN Ok(s)
    ELSE LET w == decode_word(d, words[k])
         IN  IF w.tag = "Panic" THEN Panic
             ELSE decode_fold_prepend(d, words, k + 1, w.val \o s)

\* words.iter().fold(String::new(), |s, w| s.push_str(decode_word(w)))
RECURSIVE decode_fold(_, _, _, _)
decode_fold(d, words, k, s) ==
    IF k > Len(words) THEN Ok(s)
    ELSE LET w == decode_word(d, words[k])
         IN  IF w.tag = "Panic" THEN Panic
             ELSE decode_fold(d, words, k + 1, s \o w.val)

decode(d, words) == decode_fold(d, words, 1, <<>>)

(***************************************************************************)
(* The command line tool (src/cli/radix50-cli.rs): raw output and input.   *)
(* A u64 is the sequence of its 8 bytes, most significant first.           *)
(***************************************************************************)
\* `a as u64` followed by to_be_bytes()
to_be_bytes(d, w) ==
    IF d = "pdp10"
    THEN <<0, 0, 0, 0, w.hi \div 256, w.hi % 256, w.lo \div 256, w.lo % 256>>
    ELSE <<0, 0, 0, 0, 0, 0, w \div 256, w % 256>>

\* the skip counts exchanged: 6 for the PDP-10, 4 for the PDP-11
raw_skip_exchanged(d) == IF d = "pdp10" THEN 6 ELSE 4

\* skip(if args.flag_pdp10 { 4 } else { 6 })
raw_skip(d) == IF d = "pdp10" THEN 4 ELSE 6

\* the Format::Raw arm: the bytes of every word behind the skipped ones
RECURSIVE raw_buffer(_, _, _, _)
raw_buffer(d, encoded, k, buffer) ==
    IF k > Len(encoded) THEN buffer
    ELSE raw_buffer(d, encoded, k + 1,
            buffer \o SubSeq(to_be_bytes(d, encoded[k]), raw_skip(d) + 1, 8))

\* get_input::<_, 4> for the PDP-10, get_input::<_, 2> for the PDP-11
chunk_bytes(d) == IF d = "pdp10" THEN 4 ELSE 2

\* a.iter().fold(0u64, |w, b| w << 8 | *b as u64), from byte k of the chunk on
RECURSIVE fold_be(_, _, _)
fold_be(a, k, w) ==
    IF k > Len(a) THEN w
    ELSE fold_be(a, k + 1, SubSeq(w, 2, 8) \o <<a[k]>>)

\* try_into().unwrap(): the u64 as a word of the dialect, a panic when it
\* does not fit
try_into_word(d, w) ==
    IF d = "pdp10"
    THEN IF \E k \in 1..4 : w[k] # 0 THEN Panic
         ELSE Ok([hi |-> w[5] * 256 + w[6], lo |-> w[7] * 256 + w[8]])
    ELSE IF \E k \in 1..6 : w[k] # 0 THEN Panic
         ELSE Ok(w[7] * 256 + w[8])

\* stdin.array_chunks::<N>().map(..).collect(): whole chunks only, from byte
\* k on
RECURSIVE get_input(_, _, _, _)
get_input(d, stdin, k, words) ==
    IF k + chunk_bytes(d) - 1 > Len(stdin) THEN Ok(words)
    ELSE LET w == try_into_word(d,
                    fold_be(SubSeq(stdin, k, k + chunk_bytes(d) - 1), 1,
                            <<0, 0, 0, 0, 0, 0, 0, 0>>))
         IN  IF w.tag = "Panic" THEN Panic
             ELSE get_input(d, stdin, k + chunk_bytes(d), Append(words, w.val))

(***************************************************************************)
(* The callers' inputs.                                                    *)
(***************************************************************************)
\* ' ', '9', '_' and U+00E9: two legal chars (digit 0 in both dialects, digit
\* 39 in the PDP-11 one), an illegal ASCII char and a char above 0x7F
InputChars == {32, 57, 95, 233}

RECURSIVE StringsUpTo(_)
StringsUpTo(n) ==
    IF n = 0 THEN {<<>>}
    ELSE LET shorter == StringsUpTo(n - 1)
         IN  shorter \cup {Append(s, c) : s \in {x \in shorter : Len(x) = n - 1},
                                          c \in InputChars}

\* the strings of the crate's tests and doc examples:
\*   "999", "_BC", "A_C", "AB_", "ABC", "AB-", "A", "DEF"
\*   "%", "9.$", "ABCDEF", "YZ 012", "9.$%  ", "SYMBOL"
\*   "%%%%%%", "THIS IS A TEST", "_HIS IS A TEST", "THIS _S A TEST", "THIS IS A TES_"
TestStrings ==
    {
      <<57, 57, 57>>,
      <<95, 66, 67>>,
      <<65, 95, 67>>,
      <<65, 66, 95>>,
      <<65, 66, 67>>,
      <<65, 66, 45>>,
      <<65>>,
      <<68, 69, 70>>,
      <<37>>,
      <<57, 46, 36>>,
      <<65, 66, 67, 68, 69, 70>>,
      <<89, 90, 32, 48, 49, 50>>,
      <<57, 46, 36, 37, 32, 32>>,
      <<83, 89, 77, 66, 79, 76>>,
      <<37, 37, 37, 37, 37, 37>>,
      <<84, 72, 73, 83, 32, 73, 83, 32, 65, 32, 84, 69, 83, 84>>,
      <<95, 72, 73, 83, 32, 73, 83, 32, 65, 32, 84, 69, 83, 84>>,
      <<84, 72, 73, 83, 32, 95, 83, 32, 65, 32, 84, 69, 83, 84>>,
      <<84, 72, 73, 83, 32, 73, 83, 32, 65, 32, 84, 69, 83, 95>>
    }

\* each alphabet in full, space padded to 42 chars (a multiple of 3 and of 6)
AlphabetStrings ==
    {pdp10_RADIX50_DECODE \o <<32, 32>>, pdp11_RADIX50_DECODE \o <<32, 32>>}

InputStrings(d) ==
    StringsUpTo(CHARS(d) + MaxExtra) \cup TestStrings \cup AlphabetStrings

\* u16 words around the edges of 40, 40^2, 40^3 and 2^16, and test words
pdp11_SampleWords ==
    {0, 1, 39, 40, 1599, 1600, 1683, 32329, 46400, 63999, 64000, 65535}

\* u32 words around the edges of 40^3, 2^16, 40^6, 2^16 * 40^3 and 2^32, and
\* test words:
\*   0, 1, 39, 40, 1599, 1600
\*   1683, 63999, 64000, 65535, 65536, 1157975016
\*   3119342419, 3060692222, 4095999999, 4096000000, 4194303999, 4194304000
\*   4294967295
pdp10_SampleWords ==
    {
      [hi |-> 0, lo |-> 0],
      [hi |-> 0, lo |-> 1],
      [hi |-> 0, lo |-> 39],
      [hi |-> 0, lo |-> 40],
      [hi |-> 0, lo |-> 1599],
      [hi |-> 0, lo |-> 1600],
      [hi |-> 0, lo |-> 1683],
      [hi |-> 0, lo |-> 63999],
      [hi |-> 0, lo |-> 64000],
      [hi |-> 0, lo |-> 65535],
      [hi |-> 1, lo |-> 0],
      [hi |-> 17669, lo |-> 19432],
      [hi |-> 47597, lo |-> 25427],
      [hi |-> 46702, lo |-> 29950],
      [hi |-> 62499, lo |-> 65535],
      [hi |-> 62500, lo |-> 0],
      [hi |-> 63999, lo |-> 65535],
      [hi |-> 64000, lo |-> 0],
      [hi |-> 65535, lo |-> 65535]
    }

SampleWords(d) == IF d = "pdp10" THEN pdp10_SampleWords ELSE pdp11_SampleWords

\* single words: every u16 for the PDP-11, the sample words for the PDP-10
InputWords(d) == IF d = "pdp10" THEN pdp10_SampleWords ELSE 0..65535

RECURSIVE WordSeqsUpTo(_, _)
WordSeqsUpTo(d, n) ==
    IF n = 0 THEN {<<>>}
    ELSE LET shorter == WordSeqsUpTo(d, n - 1)
         IN  shorter \cup {Append(s, w) : s \in {x \in shorter : Len(x) = n - 1},
                                          w \in SampleWords(d)}

InputWordSeqs(d) ==
    WordSeqsUpTo(d, MaxWords) \cup {<<w>> : w \in InputWords(d)}

(***************************************************************************)
(* The state machine: a caller holds a string `text` and a word sequence   *)
(* `ws`, and calls the public functions of one dialect.  `ops` lists the   *)
(* calls made so far, `ret` is what the last encode or encode_word         *)
(* returned, `dec` what the last decode or decode_word returned, and       *)
(* `overflow` whether an integer operation of the last encode or           *)
(* encode_word went past its machine width.  The command line tool runs    *)
(* on the same `text`: `raw` is the byte stream that `encode --format=raw` *)
(* wrote to stdout and `decode` reads as stdin, `printed` what `decode`    *)
(* wrote to stdout.                                                        *)
(***************************************************************************)
Init ==
    /\ dialect \in Dialects
    /\ \/ text \in InputStrings(dialect) /\ ws = <<>>
       \/ text = <<>> /\ ws \in InputWordSeqs(dialect)
    /\ ops = <<>>
    /\ ret = None
    /\ dec = None
    /\ overflow = FALSE
    /\ raw = <<>>
    /\ printed = None

\* ret = encode(text); on success the caller keeps the words
Encode ==
    /\ ops = <<>>
    /\ ret' = encode(dialect, text)
    /\ overflow' = encode_overflows(dialect, text)
    /\ ws' = IF ret'.tag = "Ok" THEN ret'.val ELSE ws
    /\ ops' = Append(ops, "encode")
    /\ UNCHANGED <<dialect, text, dec, raw, printed>>

\* ret = encode_word(text); on success the caller keeps the word
EncodeWord ==
    /\ ops = <<>>
    /\ ret' = encode_word(dialect, text)
    /\ overflow' = encode_word_overflows(dialect, text)
    /\ ws' = IF ret'.tag = "Ok" THEN <<ret'.val>> ELSE ws
    /\ ops' = Append(ops, "encode_word")
    /\ UNCHANGED <<dialect, text, dec, raw, printed>>

\* dec = decode(ws), of the caller's words or of the words just encoded
Decode ==
    /\ \/ ops = <<>>
       \/ Len(ops) = 1 /\ ret.tag = "Ok"
    /\ dec' = decode(dialect, ws)
    /\ ops' = Append(ops, "decode")
    /\ UNCHANGED <<dialect, text, ws, ret, overflow, raw, printed>>

\* dec = decode_word(ws[1]), of the caller's word or of the word just encoded
DecodeWord ==
    /\ \/ ops = <<>>
       \/ Len(ops) = 1 /\ ret.tag = "Ok"
    /\ Len(ws) = 1
    /\ dec' = decode_word(dialect, ws[1])
    /\ ops' = Append(ops, "decode_word")
    /\ UNCHANGED <<dialect, text, ws, ret, overflow, raw, printed>>

\* ret = encode_word(dec), of the string that decode_word returned for the
\* caller's word
EncodeDecodedWord ==
    /\ ops = <<"decode_word">>
    /\ dec.tag = "Ok"
    /\ ret' = encode_word(dialect, dec.val)
    /\ overflow' = encode_word_overflows(dialect, dec.val)
    /\ ops' = Append(ops, "encode_word")
    /\ UNCHANGED <<dialect, text, ws, dec, raw, printed>>

\* radix50 encode [--pdp10] --format=raw <string>: the words of encode(text)
\* written to stdout, or the error returned from main and nothing written;
\* the tool is given a string, never words
MainEncodeRaw ==
    /\ ops = <<>>
    /\ ws = <<>>
    /\ ret' = encode(dialect, text)
    /\ overflow' = encode_overflows(dialect, text)
    /\ raw' = IF ret'.tag = "Ok" THEN raw_buffer(dialect, ret'.val, 1, <<>>) ELSE raw
    /\ ops' = Append(ops, "main_encode_raw")
    /\ UNCHANGED <<dialect, text, ws, dec, printed>>

\* radix50 decode [--pdp10] with the bytes written before as stdin: the words
\* read, decoded and printed with println!
MainDecodeStdin ==
    /\ ops = <<"main_encode_raw">>
    /\ ret.tag = "Ok"
    /\ LET words == get_input(dialect, raw, 1, <<>>)
       IN  /\ ws' = IF words.tag = "Ok" THEN words.val ELSE ws
           /\ dec' = IF words.tag = "Ok" THEN decode(dialect, words.val) ELSE Panic
    /\ printed' = IF dec'.tag = "Ok" THEN Ok(dec'.val \o <<10>>) ELSE Panic
    /\ ops' = Append(ops, "main_decode_stdin")
    /\ UNCHANGED <<dialect, text, ret, overflow, raw>>

Next ==
    \/ Encode
    \/ EncodeWord
    \/ Decode
    \/ DecodeWord
    \/ EncodeDecodedWord
    \/ MainEncodeRaw
    \/ MainDecodeStdin

Spec == Init /\ [][Next]_vars

(***************************************************************************)
(* What the claims speak of.                                               *)
(***************************************************************************)
Alphabet(d) == {DECODE(d)[i] : i \in 1..40}

IsLegal(d, s) == \A k \in 1..Len(s) : s[k] \in Alphabet(d)

IllegalPositions(d, s) == {k \in 1..Len(s) : s[k] \notin Alphabet(d)}

FirstIllegal(d, s) ==
    CHOOSE k \in IllegalPositions(d, s) : \A j \in IllegalPositions(d, s) : k <= j

Called(first) == ops # <<>> /\ ops[1] = first

LastCall == ops[Len(ops)]

\* C1: a string of alphabet characters whose length is a multiple of the chunk
\* size encodes without error, and decoding the words encoded gives the string
\* back.
C1_RoundTrip ==
    (Called("encode") /\ IsLegal(dialect, text) /\ Len(text) % CHARS(dialect) = 0)
        => /\ ret.tag = "Ok"
           /\ ops = <<"encode", "decode">> => dec = Ok(text)

C1_Witness ==
    /\ ops = <<"encode", "decode">>
    /\ dialect = "pdp10"
    /\ text = pdp10_RADIX50_DECODE \o <<32, 32>>
    /\ dec = Ok(text)

\* C2: encode fails exactly when the string holds a character outside the
\* alphabet; the error is IllegalChar of the first such character and its
\* 1-based index in the whole string, and nothing else is returned with it.
C2_FirstIllegalChar ==
    Called("encode")
        => /\ ret.tag = "Err" <=> IllegalPositions(dialect, text) # {}
           /\ ret.tag \in {"Ok", "Err"}
           /\ IllegalPositions(dialect, text) # {}
                => ret = IllegalChar(text[FirstIllegal(dialect, text)],
                                     FirstIllegal(dialect, text))

\* an illegal character in the short final chunk of a PDP-10 string, behind
\* another one that comes later
C2_Witness ==
    /\ ops = <<"encode">>
    /\ dialect = "pdp10"
    /\ Len(text) = 14
    /\ ret = IllegalChar(95, 14)

\* the digit of weight 40^j of a word, by division alone
RECURSIVE U32DivPow40(_, _)
U32DivPow40(w, j) == IF j = 0 THEN w ELSE U32DivPow40(U32DivSmall(w, 40), j - 1)

PositionalDigit(d, w, j) ==
    IF d = "pdp10" THEN U32ModSmall(U32DivPow40(w, j), 40) ELSE (w \div 40^j) % 40

PositionalDecode(d, w) ==
    [k \in 1..CHARS(d) |-> DECODE(d)[PositionalDigit(d, w, CHARS(d) - k) + 1]]

\* C3: decode_word of any word of the full range, in range or not, is the
\* string whose k-th character is alphabet[(value / 40^(N-1-k)) mod 40].
C3_PositionalDecode ==
    (ops # <<>> /\ LastCall = "decode_word")
        => dec = Ok(PositionalDecode(dialect, ws[1]))

\* the right-padding of s with spaces to n chars
RECURSIVE PadTo(_, _)
PadTo(s, n) == IF Len(s) >= n THEN s ELSE PadTo(Append(s, 32), n)

\* the next multiple of n from len on
PaddedLen(len, n) == ((len + n - 1) \div n) * n

ZeroWord(d) == IF d = "pdp10" THEN [hi |-> 0, lo |-> 0] ELSE 0

\* C4: encode_word of a legal string shorter than a chunk succeeds and equals
\* encode_word of the string right-padded with spaces to the chunk size; the
\* empty string encodes as the word 0.
C4_PaddingIdempotence ==
    (Called("encode_word") /\ IsLegal(dialect, text) /\ Len(text) < CHARS(dialect))
        => /\ ret.tag = "Ok"
           /\ ret = encode_word(dialect, PadTo(text, CHARS(dialect)))
           /\ text = <<>> => ret = Ok(ZeroWord(dialect))

C4_Witness ==
    /\ ops = <<"encode_word">>
    /\ dialect = "pdp10"
    /\ text = <<57, 57, 57, 57>>
    /\ ret.tag = "Ok"

\* C5: encode of a legal string equals encode of the string right-padded with
\* spaces to the next multiple of the chunk size, and decoding the words gives
\* the padded string.
C5_EncodePads ==
    (Called("encode") /\ IsLegal(dialect, text))
        => LET padded == PadTo(text, PaddedLen(Len(text), CHARS(dialect)))
           IN  /\ ret = encode(dialect, padded)
               /\ ops = <<"encode", "decode">> => dec = Ok(padded)

\* "THIS IS A TEST" comes back with four spaces behind it
C5_Witness ==
    /\ ops = <<"encode", "decode">>
    /\ dialect = "pdp10"
    /\ Len(text) = 14
    /\ dec = Ok(text \o <<32, 32, 32, 32>>)

\* the digit of a character: its index in the alphabet
IndexOf(d, c) == CHOOSE i \in 0..39 : DECODE(d)[i + 1] = c

DigitAt(d, s, k) == IF k <= Len(s) THEN IndexOf(d, s[k]) ELSE 0

\* sum of digit[k] * 40^(N-1-k), for the PDP-11 as a number
RECURSIVE PositionalSum(_, _, _)
PositionalSum(d, s, k) ==
    IF k > CHARS(d) THEN 0
    ELSE DigitAt(d, s, k) * 40^(CHARS(d) - k) + PositionalSum(d, s, k + 1)

\* the same value for the PDP-10 in 32 bits, one digit after the other
RECURSIVE PositionalU32(_, _, _, _)
PositionalU32(d, s, k, acc) ==
    IF k > CHARS(d) THEN acc
    ELSE PositionalU32(d, s, k + 1,
            U32Add(U32MulSmall(acc, 40), U32FromU16(DigitAt(d, s, k))))

PositionalValue(d, s) ==
    IF d = "pdp10" THEN PositionalU32(d, s, 1, [hi |-> 0, lo |-> 0])
    ELSE PositionalSum(d, s, 1)

\* C6: encode_word of a legal string of at most N chars is the base-40
\* positional value of its digits, space (digit 0) standing for the chars that
\* are missing; "ABC" is 1683 and "999" is 63999 for the PDP-11, "ABCDEF" is
\* 1157975016 (17669 * 2^16 + 19432) for the PDP-10.
C6_PositionalValue ==
    (Called("encode_word") /\ IsLegal(dialect, text) /\ Len(text) <= CHARS(dialect))
        => /\ ret = Ok(PositionalValue(dialect, text))
           /\ (dialect = "pdp11" /\ text = <<65, 66, 67>>) => ret = Ok(1683)
           /\ (dialect = "pdp11" /\ text = <<57, 57, 57>>) => ret = Ok(63999)
           /\ (dialect = "pdp10" /\ text = <<65, 66, 67, 68, 69, 70>>)
                => ret = Ok([hi |-> 17669, lo |-> 19432])

C6_Witness ==
    /\ ops = <<"encode_word">>
    /\ dialect = "pdp10"
    /\ text = <<65, 66, 67, 68, 69, 70>>
    /\ ret = Ok([hi |-> 17669, lo |-> 19432])

\* C7: decode_word of any word of the full range returns, without a panic,
\* exactly N characters of the alphabet.
C7_DecodeTotal ==
    (ops # <<>> /\ LastCall = "decode_word")
        => /\ dec.tag = "Ok"
           /\ Len(dec.val) = CHARS(dialect)
           /\ \A k \in 1..Len(dec.val) : dec.val[k] \in Alphabet(dialect)

\* the largest u32
C7_Witness ==
    /\ ops = <<"decode_word">>
    /\ dialect = "pdp10"
    /\ ws = <<[hi |-> 65535, lo |-> 65535]>>
    /\ dec.tag = "Ok"

\* C8: encode of the empty string is the empty word sequence, and decode of
\* the empty word sequence is the empty string.
C8_EmptyInput ==
    /\ (Called("encode") /\ text = <<>>) => ret = Ok(<<>>)
    /\ (ops # <<>> /\ LastCall = "decode" /\ ws = <<>>) => dec = Ok(<<>>)

C8_Witness ==
    /\ ops = <<"encode", "decode">>
    /\ text = <<>>
    /\ ws = <<>>
    /\ dec = Ok(<<>>)

Bijection(d) ==
    /\ Len(DECODE(d)) = 40
    /\ \A i \in 1..40 : DECODE(d)[i] \in 0..127
    /\ \A i, j \in 1..40 : DECODE(d)[i] = DECODE(d)[j] => i = j
    /\ DOMAIN ENCODE(d) = 0..127
    /\ \A i \in 0..39 : ENCODE(d)[DECODE(d)[i + 1]] = Some(i)
    /\ \A c \in 0..127 : c \notin Alphabet(d) => ENCODE(d)[c] = None

pdp10_Bijection == Bijection("pdp10")
pdp11_Bijection == Bijection("pdp11")

\* C9: the 40 entries of the dialect's alphabet are distinct ASCII codes, the
\* inverse table maps the i-th of them to Some(i) and every other code to None.
C9_AlphabetBijection ==
    IF dialect = "pdp10" THEN pdp10_Bijection ELSE pdp11_Bijection

\* the whole alphabet has gone through the inverse table
C9_Witness ==
    /\ ops = <<"encode">>
    /\ text = DECODE(dialect) \o <<32, 32>>
    /\ ret.tag = "Ok"
    /\ Len(ret.val) * CHARS(dialect) = 42

\* C10: encode_word of a string of at most N chars that holds an illegal
\* character fails with IllegalChar of the first such character and its
\* 1-based index in the string, above 0x7F or not.
C10_WordIllegalChar ==
    (Called("encode_word") /\ Len(text) <= CHARS(dialect)
                           /\ IllegalPositions(dialect, text) # {})
        => /\ ret = IllegalChar(text[FirstIllegal(dialect, text)],
                                FirstIllegal(dialect, text))
           /\ ret.pos \in 1..CHARS(dialect)
           /\ text = <<95, 66, 67>> => ret = IllegalChar(95, 1)
           /\ text = <<65, 95, 67>> => ret = IllegalChar(95, 2)
           /\ text = <<65, 66, 95>> => ret = IllegalChar(95, 3)
           /\ text = <<65, 66, 45>> => ret = IllegalChar(45, 3)

\* a char above 0x7F in the second half of a PDP-10 word
C10_Witness ==
    /\ ops = <<"encode_word">>
    /\ dialect = "pdp10"
    /\ Len(text) = 6
    /\ ret = IllegalChar(233, 5)

\* 40^3 and 40^6 (= 62500 * 2^16) bound the words of either dialect
InRange(d, w) == IF d = "pdp10" THEN w.hi < 62500 ELSE w < 64000

\* C11: every word of a successful encode_word or encode is below 40^N, and no
\* operation computing it goes past its machine width (16 bits for the three
\* digits, 32 bits for high * 64000 + low).
C11_WordInRange ==
    ((Called("encode_word") \/ Called("encode")) /\ ret.tag = "Ok")
        => /\ ~overflow
           /\ Called("encode_word") => InRange(dialect, ret.val)
           /\ Called("encode")
                => \A i \in 1..Len(ret.val) : InRange(dialect, ret.val[i])

\* the largest word: six times digit 39, 40^6 - 1
C11_Witness ==
    /\ ops = <<"encode_word">>
    /\ dialect = "pdp10"
    /\ text = <<37, 37, 37, 37, 37, 37>>
    /\ ret = Ok([hi |-> 62499, lo |-> 65535])
    /\ ~overflow

\* the j-th of the n bytes of a word, most significant first
BigEndianByte(d, w, n, j) ==
    IF d = "pdp10"
    THEN (IF j <= 2 THEN (w.hi \div 256^(2 - j)) % 256
          ELSE (w.lo \div 256^(4 - j)) % 256)
    ELSE (w \div 256^(n - j)) % 256

WordBytes(d) == IF d = "pdp10" THEN 4 ELSE 2

Min(a, b) == IF a <= b THEN a ELSE b

\* C13: encode of a legal string of L chars returns ceil(L/N) words, and word i
\* (from 0) is encode_word of the chars i*N .. min((i+1)*N, L)-1, in order.
C13_Chunking ==
    (Called("encode") /\ IsLegal(dialect, text))
        => /\ ret.tag = "Ok"
           /\ Len(ret.val) = (Len(text) + CHARS(dialect) - 1) \div CHARS(dialect)
           /\ \A i \in 0..(Len(ret.val) - 1) :
                Ok(ret.val[i + 1])
                    = encode_word(dialect,
                                  SubSeq(text, i * CHARS(dialect) + 1,
                                         Min((i + 1) * CHARS(dialect), Len(text))))

\* three full chunks and a short one
C13_Witness ==
    /\ ops = <<"encode">>
    /\ dialect = "pdp11"
    /\ Len(text) = 14
    /\ ret = Ok(<<32329, 30409, 30401, 805, 31200>>)

\* C14: decode of a word sequence is the concatenation, in order, of
\* decode_word of its words, of N chars each, so that decode of two
\* sequences put together is the two decoded strings put together.
C14_DecodeConcat ==
    (ops # <<>> /\ LastCall = "decode")
        => /\ dec.tag = "Ok"
           /\ Len(dec.val) = CHARS(dialect) * Len(ws)
           /\ \A k \in 1..Len(ws) :
                Ok(SubSeq(dec.val, (k - 1) * CHARS(dialect) + 1, k * CHARS(dialect)))
                    = decode_word(dialect, ws[k])
           /\ \A j \in 0..Len(ws) :
                dec.val = decode(dialect, SubSeq(ws, 1, j)).val
                          \o decode(dialect, SubSeq(ws, j + 1, Len(ws))).val

\* two different words of the caller
C14_Witness ==
    /\ ops = <<"decode">>
    /\ dialect = "pdp11"
    /\ ws = <<1683, 63999>>
    /\ dec = Ok(<<65, 66, 67, 57, 57, 57>>)

\* C15: encode_word of decode_word of a word below 40^N is that word, and
\* decode_word of encode_word of a legal string of N chars is that string.
C15_WordBijection ==
    /\ (ops = <<"decode_word", "encode_word">> /\ InRange(dialect, ws[1]))
            => ret = Ok(ws[1])
    /\ (ops = <<"encode_word", "decode_word">> /\ IsLegal(dialect, text)
                                              /\ Len(text) = CHARS(dialect))
            => dec = Ok(text)

\* the word 40^6 - 1
C15_Witness ==
    /\ ops = <<"decode_word", "encode_word">>
    /\ dialect = "pdp10"
    /\ ws = <<[hi |-> 62499, lo |-> 65535]>>
    /\ dec = Ok(<<37, 37, 37, 37, 37, 37>>)
    /\ ret = Ok(ws[1])

OtherDialect(d) == IF d = "pdp10" THEN "pdp11" ELSE "pdp10"

SameAlphabet == Alphabet("pdp10") = Alphabet("pdp11")

\* C17: the two alphabets hold the same 40 characters, so encode of a string
\* fails in one dialect exactly when it fails in the other, and then with the
\* same IllegalChar.
C17_SameLegality ==
    Called("encode")
        => /\ SameAlphabet
           /\ ret.tag = "Err" <=> encode(OtherDialect(dialect), text).tag = "Err"
           /\ ret.tag = "Err" => ret = encode(OtherDialect(dialect), text)

\* position 6: the last char of the first PDP-10 chunk and of the second
\* PDP-11 chunk
C17_Witness ==
    /\ ops = <<"encode">>
    /\ dialect = "pdp11"
    /\ Len(text) = 14
    /\ ret = IllegalChar(95, 6)
    /\ encode("pdp10", text) = ret

====
